---- MODULE Spec2Model ----
(***************************************************************************)
(* EchoEats chat backend (echoeats-chat/server): the session-scoped        *)
(* conversation store (llm.py, SimpleMemory), the chat orchestrator        *)
(* (llm.py, LLMService.chat_once) and the order store with its two query   *)
(* resolvers (order_tool.py).                                              *)
(*                                                                         *)
(* Six specifications share the variables:                                 *)
(*   Spec        the service as main.py drives it: chat_once and           *)
(*               get_chat_history on the global llm_service;               *)
(*   SpecMemory  the SimpleMemory object driven directly through           *)
(*               save_context with every shape of inputs/outputs;          *)
(*   SpecOrders  the order store, its reads and writes, and the search     *)
(*               operations over it;                                       *)
(*   SpecAssist  the search_order_history tool, from the query LLM's       *)
(*               response to the text returned;                            *)
(*   SpecAsync   chat_once requests that give way to each other where      *)
(*               they wait for the model;                                  *)
(*   SpecShared  add_order through the two store instances built on the    *)
(*               same backing file.                                        *)
(*                                                                         *)
(* chat_once holds no await, so the event loop runs each request to its    *)
(* end before the next one starts: one action per request in Spec.  Every  *)
(* operation is modelled as a call that leaves its inputs in `call`, its   *)
(* return value in `ret` and what it did on the way in `trace`; Return     *)
(* hands the value back to the caller and makes room for the next call.    *)
(***************************************************************************)
EXTENDS Integers, Sequences, FiniteSets, TLC

VARIABLES
    model_with_tools,   \* LLMService.model_with_tools is set (llm.py:49-68)
    query_llm,          \* IntelligentOrderSearch.query_llm is set (order_tool.py:258-277)
    _sessions,          \* SimpleMemory._sessions: session id -> list of messages
    savelog,            \* history: per session id, the save_context calls made for it
    orders,             \* OrderDatabase.orders, the in-memory order list
    file,               \* the order list in the backing file (orders.json)
    call,               \* the operation that has just run, with its inputs
    ret,                \* its return value
    trace,              \* what chat_once did: model invocations, tools run, tool results
    inflight,           \* per request slot: the chat_once waiting for the model, if any
    intelligent_search_orders
                        \* intelligent_search.db.orders, where the two instances' lists differ

vars ==
    <<model_with_tools, query_llm, _sessions, savelog, orders, file, call, ret, trace,
      inflight, intelligent_search_orders>>

----------------------------------------------------------------------------
(* Bounds *)

MaxExchanges == 2       \* chat exchanges stored over all sessions
MaxToolCalls == 2       \* tool calls in one model response
MaxSaves == 3           \* direct save_context calls
MaxOrders == 3          \* orders in the store

----------------------------------------------------------------------------
(* Python values *)

None == "<None>"
Idle == [op |-> "idle"]

\* the slots for requests that run at the same time, and a slot without one
Slots == {1, 2}
Free == [at |-> "free"]
NoTrace == [invoked |-> <<>>, executed |-> <<>>, tool_results |-> <<>>]

\* `not x` for an optional string: None and the empty string are both falsy
Falsy(x) == x = None \/ x = ""

\* dict.get(key, default), a dict being a function on its keys
Get(d, key, default) == IF key \in DOMAIN d THEN d[key] ELSE default

HumanMessage(content) == [type |-> "human", content |-> content]
AIMessage(content) == [type |-> "ai", content |-> content]
SystemMessage == [type |-> "system", content |-> "You are a helpful assistant for EchoEats restaurant."]

----------------------------------------------------------------------------
(* SimpleMemory *)

\* the lookup done with setdefault: an unknown session is created empty
load_memory_variables_setdefault(sessions, inputs) ==
    LET session_id == Get(inputs, "session_id", "default")
    IN  [messages |-> Get(sessions, session_id, <<>>),
         sessions |-> IF session_id \in DOMAIN sessions THEN sessions
                      ELSE sessions @@ (session_id :> <<>>)]

\* messages is the list of the returned dict, sessions is _sessions afterwards:
\* dict.get leaves the dict as it is
load_memory_variables(sessions, inputs) ==
    LET session_id == Get(inputs, "session_id", "default")
    IN  [messages |-> Get(sessions, session_id, <<>>),
         sessions |-> sessions]

\* save_context with the reply appended before the message
save_context_reply_first(sessions, inputs, outputs) ==
    LET session_id == Get(inputs, "session_id", "default")
        s0 == IF session_id \notin DOMAIN sessions
              THEN sessions @@ (session_id :> <<>>)
              ELSE sessions
        s1 == IF "reply" \in DOMAIN outputs
              THEN [s0 EXCEPT ![session_id] = Append(@, AIMessage(outputs["reply"]))]
              ELSE s0
        s2 == IF "message" \in DOMAIN inputs
              THEN [s1 EXCEPT ![session_id] = Append(@, HumanMessage(inputs["message"]))]
              ELSE s1
    IN  s2

\* save_context with one message list shared by all the sessions
save_context_shared_list(sessions, inputs, outputs) ==
    LET session_id == Get(inputs, "session_id", "default")
        s0 == IF session_id \notin DOMAIN sessions
              THEN sessions @@ (session_id :> <<>>)
              ELSE sessions
        add == (IF "message" \in DOMAIN inputs
                THEN <<HumanMessage(inputs["message"])>> ELSE <<>>)
               \o (IF "reply" \in DOMAIN outputs
                   THEN <<AIMessage(outputs["reply"])>> ELSE <<>>)
    IN  [s \in DOMAIN s0 |-> s0[s] \o add]

save_context(sessions, inputs, outputs) ==
    LET session_id == Get(inputs, "session_id", "default")
        s0 == IF session_id \notin DOMAIN sessions
              THEN sessions @@ (session_id :> <<>>)
              ELSE sessions
        s1 == IF "message" \in DOMAIN inputs
              THEN [s0 EXCEPT ![session_id] = Append(@, HumanMessage(inputs["message"]))]
              ELSE s0
        s2 == IF "reply" \in DOMAIN outputs
              THEN [s1 EXCEPT ![session_id] = Append(@, AIMessage(outputs["reply"]))]
              ELSE s1
    IN  s2

----------------------------------------------------------------------------
(* The collaborators of chat_once: the model and the tool registry *)

Messages == {"m1", "m2"}
Contents == {"r1", "r2"}
SessionIds == {"a", "b"}
Uuids == {"u1"}                         \* what uuid.uuid4() can return

ORDER_TOOLS == <<"search_order_history">>

\* tool calls a model response can carry; "get_menu" is a name the registry lacks
ToolCallUniverse ==
    { [name |-> "search_order_history", args |-> "q1"],
      [name |-> "search_order_history", args |-> "q2"],
      [name |-> "get_menu", args |-> "q3"] }

\* the tool call a second response can carry
SecondToolCall == [name |-> "search_order_history", args |-> "q4"]

\* tool.invoke(args): the search raises for q2 (query LLM missing or its JSON
\* unparsable, order_tool.py:282-283, 311-313) and returns a text otherwise
ToolRaises(tool_call) == tool_call.args = "q2"
ToolResult(tool_call) == "orders(" \o tool_call.args \o ")"
ToolError(tool_call) == "failed(" \o tool_call.args \o ")"

ToolCallSeqs ==
    UNION { [1..n -> ToolCallUniverse] : n \in 0..MaxToolCalls }

Raises == [raises |-> TRUE, content |-> "", tool_calls |-> <<>>]
\* the answer of an invocation that a request never makes
Unasked == [raises |-> FALSE, content |-> "", tool_calls |-> <<>>]

\* the outcomes of the first model.invoke
FirstResponses ==
    {Raises}
    \cup { [raises |-> FALSE, content |-> c, tool_calls |-> <<>>] : c \in Contents }
    \cup { [raises |-> FALSE, content |-> "r1", tool_calls |-> t] :
               t \in ToolCallSeqs \ {<<>>} }

\* the outcomes of the second model.invoke; its response may ask for tools again
SecondResponses ==
    {Raises}
    \cup { [raises |-> FALSE, content |-> c, tool_calls |-> <<>>] : c \in Contents }
    \cup { [raises |-> FALSE, content |-> "r2", tool_calls |-> <<SecondToolCall>>] }

----------------------------------------------------------------------------
(* LLMService.chat_once *)

Echo(message) == "echo: " \o message

InTools(name) == \E i \in 1..Len(ORDER_TOOLS) : ORDER_TOOLS[i] = name

\* ToolStep with a failing tool leaving no entry
ToolStep_error_dropped(tool_call, acc) ==
    IF InTools(tool_call.name) /\ ~ToolRaises(tool_call)
    THEN [tool_results |->
              Append(acc.tool_results,
                  "Tool " \o tool_call.name \o ": " \o ToolResult(tool_call)),
          executed |-> Append(acc.executed, tool_call)]
    ELSE acc

\* lines 107-118, one pass of the loop body: find the tool by name and run it;
\* acc holds tool_results and, as history, the calls whose tool.invoke ran
ToolStep(tool_call, acc) ==
    IF InTools(tool_call.name)
    THEN [tool_results |->
              Append(acc.tool_results,
                  IF ToolRaises(tool_call)
                  THEN "Tool " \o tool_call.name \o " error: " \o ToolError(tool_call)
                  ELSE "Tool " \o tool_call.name \o ": " \o ToolResult(tool_call)),
          executed |-> Append(acc.executed, tool_call)]
    ELSE acc

RECURSIVE ToolLoop(_, _, _)
\* line 106: for tool_call in response.tool_calls, from index i on
ToolLoop(tool_calls, i, acc) ==
    IF i > Len(tool_calls) THEN acc
    ELSE ToolLoop(tool_calls, i + 1, ToolStep(tool_calls[i], acc))

RECURSIVE Join(_, _)
\* sep.join(texts)
Join(sep, texts) ==
    IF texts = <<>> THEN ""
    ELSE IF Len(texts) = 1 THEN texts[1]
    ELSE texts[1] \o sep \o Join(sep, Tail(texts))

EchoReturn(message, session_id) ==
    [reply |-> Echo(message), session_id |-> session_id, message_count |-> 0]

\* PersistAndRespond with the count taken before the save
PersistAndRespond_stale_count(sessions, message, session_id, final_content, did) ==
    LET saved == save_context(sessions,
                     [message |-> message, session_id |-> session_id],
                     [reply |-> final_content])
        memory == load_memory_variables(sessions, [session_id |-> session_id])
    IN  [ret |-> [reply |-> final_content,
                  session_id |-> session_id,
                  message_count |-> Len(memory.messages)],
         sessions |-> saved,
         trace |-> did]

\* lines 130-144: save to memory, count, return
PersistAndRespond(sessions, message, session_id, final_content, did) ==
    LET saved == save_context(sessions,
                     [message |-> message, session_id |-> session_id],
                     [reply |-> final_content])
        updated_memory == load_memory_variables(saved, [session_id |-> session_id])
    IN  [ret |-> [reply |-> final_content,
                  session_id |-> session_id,
                  message_count |-> Len(updated_memory.messages)],
         sessions |-> saved,
         trace |-> did]

\* chat_once without the top-level handler: the exception reaches the caller
ExceptHandler_reraise(sessions, message, session_id, did) ==
    [ret |-> [error |-> "Internal Server Error"], sessions |-> sessions, trace |-> did]

\* the handler keeping the failed exchange in the session
ExceptHandler_stores_echo(sessions, message, session_id, did) ==
    [ret |-> EchoReturn(message, session_id),
     sessions |-> save_context(sessions,
                      [message |-> message, session_id |-> session_id],
                      [reply |-> Echo(message)]),
     trace |-> did]

\* lines 146-152: the top-level handler
ExceptHandler(sessions, message, session_id, did) ==
    [ret |-> EchoReturn(message, session_id), sessions |-> sessions, trace |-> did]

\* SecondInvoke that goes round again when the second response asks for tools
SecondInvoke_loops(sessions, message, session_id, r2, did) ==
    IF r2.raises
    THEN ExceptHandler(sessions, message, session_id, did)
    ELSE IF r2.tool_calls # <<>>
    THEN LET ran == ToolLoop(r2.tool_calls, 1,
                        [tool_results |-> did.tool_results, executed |-> did.executed])
         IN  PersistAndRespond(sessions, message, session_id, r2.content,
                 [invoked |-> Append(did.invoked, did.invoked[2]),
                  executed |-> ran.executed,
                  tool_results |-> ran.tool_results])
    ELSE PersistAndRespond(sessions, message, session_id, r2.content, did)

\* lines 124-126 and on: the second model.invoke, whose content is final
SecondInvoke(sessions, message, session_id, r2, did) ==
    IF r2.raises
    THEN ExceptHandler(sessions, message, session_id, did)
    ELSE PersistAndRespond(sessions, message, session_id, r2.content, did)

\* the tool-call branch with the tool-result turn put into the session as well
AfterFirstResponse_stores_tool_turn(sessions, message, session_id, messages, response, r2) ==
    IF response.tool_calls # <<>>
    THEN LET ran == ToolLoop(response.tool_calls, 1,
                            [tool_results |-> <<>>, executed |-> <<>>])
             tool_message == AIMessage("Tool results: " \o Join("; ", ran.tool_results))
             messages2 == Append(messages, tool_message)
             did == [invoked |-> <<messages, messages2>>,
                     executed |-> ran.executed,
                     tool_results |-> ran.tool_results]
         IN  SecondInvoke(save_context(sessions, [session_id |-> session_id],
                                       [reply |-> tool_message.content]),
                          message, session_id, r2, did)
    ELSE PersistAndRespond(sessions, message, session_id, response.content,
             [NoTrace EXCEPT !.invoked = <<messages>>])

\* lines 103-128: the tool-call branch and the final content
AfterFirstResponse(sessions, message, session_id, messages, response, r2) ==
    IF response.tool_calls # <<>>
    THEN LET ran == ToolLoop(response.tool_calls, 1,
                            [tool_results |-> <<>>, executed |-> <<>>])
             tool_message == AIMessage("Tool results: " \o Join("; ", ran.tool_results))
             messages2 == Append(messages, tool_message)
             did == [invoked |-> <<messages, messages2>>,
                     executed |-> ran.executed,
                     tool_results |-> ran.tool_results]
         IN  SecondInvoke(sessions, message, session_id, r2, did)
    ELSE PersistAndRespond(sessions, message, session_id, response.content,
             [NoTrace EXCEPT !.invoked = <<messages>>])

\* the user message put into the session before the model is asked
UpToFirstInvoke_stores_message(sessions, message, session_id, uuid) ==
    LET sid == IF Falsy(session_id) THEN uuid ELSE session_id
        memory_vars == load_memory_variables(sessions, [session_id |-> sid])
        messages == <<SystemMessage>> \o memory_vars.messages
                        \o <<HumanMessage(message)>>
    IN  [session_id |-> sid, messages |-> messages,
         sessions |-> save_context(memory_vars.sessions,
                          [message |-> message, session_id |-> sid], <<>>)]

\* lines 79-97: the session id, the messages for the model, and the store
\* afterwards; messages is a new list, the message is appended to it alone
UpToFirstInvoke(sessions, message, session_id, uuid) ==
    LET sid == IF Falsy(session_id) THEN uuid ELSE session_id
        memory_vars == load_memory_variables(sessions, [session_id |-> sid])
        messages == <<SystemMessage>> \o memory_vars.messages
                        \o <<HumanMessage(message)>>
    IN  [session_id |-> sid, messages |-> messages, sessions |-> memory_vars.sessions]

\* chat_once minting an id even when one is supplied
chat_once_always_mints(sessions, configured, message, session_id, uuid, r1, r2) ==
    IF ~configured
    THEN [ret |-> EchoReturn(message, uuid), sessions |-> sessions, trace |-> NoTrace]
    ELSE LET memory_vars == load_memory_variables(sessions, [session_id |-> uuid])
             messages == <<SystemMessage>> \o memory_vars.messages
                             \o <<HumanMessage(message)>>
         IN  IF r1.raises
             THEN ExceptHandler(memory_vars.sessions, message, uuid,
                      [NoTrace EXCEPT !.invoked = <<messages>>])
             ELSE AfterFirstResponse(memory_vars.sessions, message, uuid,
                                     messages, r1, r2)

\* chat_once(message, session_id) with the model's answers r1, r2 and the uuid
\* that uuid4() gives: the return value, the store afterwards and the trace
chat_once(sessions, configured, message, session_id, uuid, r1, r2) ==
    IF ~configured
    THEN [ret |-> EchoReturn(message, IF Falsy(session_id) THEN uuid ELSE session_id),
          sessions |-> sessions,
          trace |-> NoTrace]
    ELSE LET begun == UpToFirstInvoke(sessions, message, session_id, uuid)
         IN  IF r1.raises
             THEN ExceptHandler(begun.sessions, message, begun.session_id,
                      [NoTrace EXCEPT !.invoked = <<begun.messages>>])
             ELSE AfterFirstResponse(begun.sessions, message, begun.session_id,
                                     begun.messages, r1, r2)

\* LLMService.get_chat_history
RECURSIVE History(_)
History(messages) ==
    IF messages = <<>> THEN <<>>
    ELSE LET msg == Head(messages)
         IN  (IF msg.type = "human" THEN <<[role |-> "user", content |-> msg.content]>>
              ELSE IF msg.type = "ai" THEN <<[role |-> "assistant", content |-> msg.content]>>
              ELSE <<>>)
             \o History(Tail(messages))

get_chat_history(sessions, session_id) ==
    History(load_memory_variables(sessions, [session_id |-> session_id]).messages)

----------------------------------------------------------------------------
(* The service: Spec *)

StoredTurns(sessions) ==
    LET RECURSIVE Sum(_)
        Sum(S) == IF S = {} THEN 0
                  ELSE LET s == CHOOSE x \in S : TRUE
                       IN  Len(sessions[s]) + Sum(S \ {s})
    IN  Sum(DOMAIN sessions)

Init ==
    /\ model_with_tools \in BOOLEAN
    /\ query_llm \in BOOLEAN
    /\ _sessions = <<>>
    /\ savelog = <<>>
    /\ orders = <<>>
    /\ file = <<>>
    /\ call = Idle
    /\ ret = <<>>
    /\ trace = NoTrace
    /\ inflight = [slot \in Slots |-> Free]
    /\ intelligent_search_orders = <<>>

\* POST /chat (main.py:59-67) -> llm_service.chat_once
ChatOnce ==
    /\ call = Idle
    /\ StoredTurns(_sessions) + 2 <= 2 * MaxExchanges
    /\ \E message \in Messages, session_id \in SessionIds \cup {None, ""},
          uuid \in Uuids, r1 \in FirstResponses \cup {Unasked},
          r2 \in SecondResponses \cup {Unasked} :
          LET out == chat_once(_sessions, model_with_tools, message, session_id,
                               uuid, r1, r2)
              \* a request takes as many answers from the model as it asks for
          IN  /\ (r1 = Unasked) = (Len(out.trace.invoked) < 1)
              /\ (r2 = Unasked) = (Len(out.trace.invoked) < 2)
              /\ call' = [op |-> "chat_once", message |-> message,
                          session_id |-> session_id, uuid |-> uuid,
                          r1 |-> r1, r2 |-> r2]
              /\ ret' = out.ret
              /\ _sessions' = out.sessions
              /\ trace' = out.trace
    /\ UNCHANGED <<model_with_tools, query_llm, savelog, orders, file, inflight, intelligent_search_orders>>

\* GET /chat/history/{session_id} (main.py:69-73) -> llm_service.get_chat_history
GetChatHistory ==
    /\ call = Idle
    /\ \E session_id \in SessionIds \cup Uuids :
          /\ call' = [op |-> "get_chat_history", session_id |-> session_id]
          /\ ret' = get_chat_history(_sessions, session_id)
          /\ _sessions' =
                load_memory_variables(_sessions, [session_id |-> session_id]).sessions
    /\ UNCHANGED <<model_with_tools, query_llm, savelog, orders, file, trace, inflight,
                   intelligent_search_orders>>

\* the caller takes the return value
Return ==
    /\ call # Idle
    /\ call' = Idle
    /\ ret' = <<>>
    /\ trace' = NoTrace
    /\ UNCHANGED <<model_with_tools, query_llm, _sessions, savelog, orders, file, inflight,
                   intelligent_search_orders>>

Next == ChatOnce \/ GetChatHistory \/ Return

Spec == Init /\ [][Next]_vars

----------------------------------------------------------------------------
(* Order store: OrderDatabase (order_tool.py) *)

(* A date is the day number of its "YYYY-MM-DD" string, day 0 being a Monday: *)
(* on such strings the string order that max() and sort() use and the order   *)
(* of the parsed datetimes are both the order of the day numbers.  The        *)
(* day_of_week of an order is stored data; nothing derives it from the date.  *)
(* Item names and the food_item text are sequences of characters.             *)

DefaultUser == "user_darshan"
Users == {DefaultUser, "user_b"}

Pie == <<"P", "i", "e">>
pie == <<"p", "i", "e">>
dip == <<"d", "i", "p">>
DIP == <<"D", "I", "P">>
Pizza == <<"P", "i", "z", "z", "a">>
Wings == <<"W", "i", "n", "g", "s">>

Item(name, quantity) == [name |-> name, quantity |-> quantity]

\* the orders the store can hold; o1 is the id of two of them
OrderUniverse ==
    { [id |-> "o1", user_id |-> DefaultUser, date |-> 4, day_of_week |-> "Friday",
       items |-> <<Item(Pie, 2), Item(Pizza, 1)>>, total |-> 1900],
      [id |-> "o2", user_id |-> DefaultUser, date |-> 11, day_of_week |-> "Friday",
       items |-> <<Item(pie, 1), Item(dip, 1)>>, total |-> 1250],
      [id |-> "o1", user_id |-> DefaultUser, date |-> 11, day_of_week |-> "Friday",
       items |-> <<Item(dip, 3)>>, total |-> 600],
      [id |-> "o3", user_id |-> "user_b", date |-> 13, day_of_week |-> "Friday",
       items |-> <<Item(Pie, 1)>>, total |-> 950],
      [id |-> "o4", user_id |-> DefaultUser, date |-> 7, day_of_week |-> "Monday",
       items |-> <<Item(DIP, 1), Item(Wings, 2)>>, total |-> 300] }

\* str.lower() on one character
LowerChar(ch) ==
    CASE ch = "P" -> "p" [] ch = "I" -> "i" [] ch = "E" -> "e" [] ch = "D" -> "d"
      [] ch = "W" -> "w" [] ch = "F" -> "f" [] ch = "M" -> "m" [] ch = "L" -> "l"
      [] ch = "A" -> "a" [] ch = "T" -> "t" [] ch = "S" -> "s"
      [] OTHER -> ch

lower(str) == [i \in 1..Len(str) |-> LowerChar(str[i])]

\* needle in hay, for strings
In(needle, hay) ==
    \E k \in 0..(Len(hay) - Len(needle)) :
        \A i \in 1..Len(needle) : hay[k + i] = needle[i]

\* the characters of a string literal
Word(s) ==
    CASE s = "last friday" ->
           <<"l", "a", "s", "t", " ", "f", "r", "i", "d", "a", "y">>
      [] s = "friday" ->
           <<"f", "r", "i", "d", "a", "y">>
      [] s = "last monday" ->
           <<"l", "a", "s", "t", " ", "m", "o", "n", "d", "a", "y">>
      [] s = "monday" ->
           <<"m", "o", "n", "d", "a", "y">>
      [] s = "last week" ->
           <<"l", "a", "s", "t", " ", "w", "e", "e", "k">>
      [] s = "week" ->
           <<"w", "e", "e", "k">>
      [] s = "latest" ->
           <<"l", "a", "t", "e", "s", "t">>
      [] s = "most recent" ->
           <<"m", "o", "s", "t", " ", "r", "e", "c", "e", "n", "t">>
      [] s = "pizza" ->
           <<"p", "i", "z", "z", "a">>
      [] s = "burger" ->
           <<"b", "u", "r", "g", "e", "r">>
      [] s = "pasta" ->
           <<"p", "a", "s", "t", "a">>
      [] s = "salad" ->
           <<"s", "a", "l", "a", "d">>
      [] s = "wings" ->
           <<"w", "i", "n", "g", "s">>
      [] s = "fish" ->
           <<"f", "i", "s", "h">>
      [] s = "chicken" ->
           <<"c", "h", "i", "c", "k", "e", "n">>
      [] s = "nachos" ->
           <<"n", "a", "c", "h", "o", "s">>
      [] s = "tuesday" ->
           <<"t", "u", "e", "s", "d", "a", "y">>
      [] s = "wednesday" ->
           <<"w", "e", "d", "n", "e", "s", "d", "a", "y">>
      [] s = "thursday" ->
           <<"t", "h", "u", "r", "s", "d", "a", "y">>
      [] s = "saturday" ->
           <<"s", "a", "t", "u", "r", "d", "a", "y">>
      [] s = "sunday" ->
           <<"s", "u", "n", "d", "a", "y">>
      [] s = "last Friday" ->
           <<"l", "a", "s", "t", " ", "F", "r", "i", "d", "a", "y">>
      [] s = "Monday" ->
           <<"M", "o", "n", "d", "a", "y">>
      [] s = "this week" ->
           <<"t", "h", "i", "s", " ", "w", "e", "e", "k">>
      [] s = "latest order" ->
           <<"l", "a", "t", "e", "s", "t", " ", "o", "r", "d", "e", "r">>
      [] s = "LATEST" ->
           <<"L", "A", "T", "E", "S", "T">>
      [] s = "wings and pizza" ->
           <<"w", "i", "n", "g", "s", " ", "a", "n", "d", " ", "p", "i", "z", "z", "a">>
      [] s = "hello" ->
           <<"h", "e", "l", "l", "o">>
      [] s = "latest pizza on friday" ->
           <<"l", "a", "t", "e", "s", "t", " ", "p", "i", "z", "z", "a", " ", "o", "n", " ", "f", "r", "i", "d", "a", "y">>

get_orders_by_date(os, date, user_id) ==
    LET Keep(order) == order.date = date /\ order.user_id = user_id
    IN  SelectSeq(os, Keep)

get_orders_by_day_of_week(os, day_of_week, user_id) ==
    LET Keep(order) == order.day_of_week = day_of_week /\ order.user_id = user_id
    IN  SelectSeq(os, Keep)

\* the range with its end date left out
get_orders_by_date_range_open_end(os, start_date, end_date, user_id) ==
    LET Keep(order) == /\ order.user_id = user_id
                       /\ start_date <= order.date /\ order.date < end_date
    IN  SelectSeq(os, Keep)

get_orders_by_date_range(os, start_date, end_date, user_id) ==
    LET Keep(order) == /\ order.user_id = user_id
                       /\ start_date <= order.date /\ order.date <= end_date
    IN  SelectSeq(os, Keep)

RECURSIVE SortedInsert_before_equals(_, _)
\* the order put in front of the orders of its own date
SortedInsert_before_equals(order, sorted) ==
    IF sorted = <<>> THEN <<order>>
    ELSE IF Head(sorted).date > order.date
    THEN <<Head(sorted)>> \o SortedInsert_before_equals(order, Tail(sorted))
    ELSE <<order>> \o sorted

RECURSIVE SortedInsert(_, _)
\* order put into a list sorted by date, most recent first, behind its equals
SortedInsert(order, sorted) ==
    IF sorted = <<>> THEN <<order>>
    ELSE IF Head(sorted).date >= order.date
    THEN <<Head(sorted)>> \o SortedInsert(order, Tail(sorted))
    ELSE <<order>> \o sorted

RECURSIVE SortByDateReverse(_)
\* list.sort(key=date, reverse=True): stable, equal dates keep their order
SortByDateReverse(os) ==
    IF os = <<>> THEN <<>>
    ELSE SortedInsert(os[Len(os)], SortByDateReverse(SubSeq(os, 1, Len(os) - 1)))

\* the sort done on self.orders itself
after_get_latest_order_sorted_in_place(os, user_id) == SortByDateReverse(os)

\* self.orders after get_latest_order: user_orders is a new list, and the sort
\* is done on it
after_get_latest_order(os, user_id) == os

\* the most recent order of the store, whoever placed it
get_latest_order_any_user(os, user_id) ==
    IF os = <<>> THEN <<>> ELSE <<SortByDateReverse(os)[1]>>

\* Optional[order]: <<>> for None, <<order>> otherwise
get_latest_order(os, user_id) ==
    LET InUser(order) == order.user_id = user_id
        user_orders == SelectSeq(os, InUser)
    IN  IF user_orders = <<>> THEN <<>>
        ELSE <<SortByDateReverse(user_orders)[1]>>

RECURSIVE get_orders_by_item_name_no_break(_, _, _)
\* the item loop without its break: one append for each matching item
get_orders_by_item_name_no_break(os, item_name, user_id) ==
    IF os = <<>> THEN <<>>
    ELSE LET order == Head(os)
             Hit(item) == In(lower(item_name), lower(item.name))
             hits == SelectSeq(order.items, Hit)
         IN  (IF order.user_id = user_id
              THEN [i \in 1..Len(hits) |-> order] ELSE <<>>)
             \o get_orders_by_item_name_no_break(Tail(os), item_name, user_id)

get_orders_by_item_name(os, item_name, user_id) ==
    LET Keep(order) ==
            /\ order.user_id = user_id
            /\ \E i \in 1..Len(order.items) :
                  In(lower(item_name), lower(order.items[i].name))
    IN  SelectSeq(os, Keep)

\* what can become of the rewrite of the file
SaveOutcomes == {"written", "open_failed", "dump_failed"}

\* save_orders without its try: the failure leaves the method
save_orders_unguarded(f, os, outcome) ==
    [file |-> CASE outcome = "written" -> os
                [] outcome = "open_failed" -> f
                [] outcome = "dump_failed" -> <<>>,
     raised |-> outcome # "written"]

\* The file is held as the order list load_orders reads from it.  open(.., 'w')
\* empties the file before json.dump writes: a dump that fails leaves a text
\* that is no JSON, from which load_orders reads no order.
save_orders(f, os, outcome) ==
    [file |-> CASE outcome = "written" -> os
                [] outcome = "open_failed" -> f
                [] outcome = "dump_failed" -> <<>>,
     raised |-> FALSE]

add_order(os, order) == Append(os, order)

----------------------------------------------------------------------------
(* OrderSearchTool, the deterministic strategy *)

\* max() that keeps the first order whatever the dates
MaxByDate_first(os, best) == best

RECURSIVE MaxByDate(_, _)
\* max(orders, key=date): the first of the orders with the greatest date
MaxByDate(os, best) ==
    IF os = <<>> THEN best
    ELSE MaxByDate(Tail(os), IF Head(os).date > best.date THEN Head(os) ELSE best)

RECURSIVE ItemsText(_)
ItemsText(items) ==
    IF items = <<>> THEN <<>>
    ELSE <<items[1].quantity, "x ", items[1].name>>
         \o (IF Len(items) > 1 THEN <<", ">> ELSE <<>>) \o ItemsText(Tail(items))

\* the pieces of the f-string, in order; the total is in cents
_format_order_response(order) ==
    <<"On ", order.date, " (", order.day_of_week, "), you ordered: ">>
    \o ItemsText(order.items) \o <<". Total: $", order.total>>

_search_by_day(os, day, user_id) ==
    LET found == get_orders_by_day_of_week(os, day, user_id)
    IN  IF found = <<>>
        THEN [found |-> FALSE,
              message |-> <<"No orders found for ", day>>,
              orders |-> <<>>]
        ELSE LET latest_order == MaxByDate(Tail(found), Head(found))
             IN  [found |-> TRUE,
                  message |-> <<"Found your ", day, " order from ", latest_order.date>>,
                  orders |-> <<latest_order>>,
                  formatted_response |-> _format_order_response(latest_order)]

\* the window taken as the seven days before today
LastWeekStart_rolling(today) == today - 7

\* today - timedelta(days=today.weekday() + 7), Monday being weekday 0
LastWeekStart(today) == today - ((today % 7) + 7)

\* the bullet character that starts a line of the summary
Bullet == "(U+2022) "

\* str.strip() takes the last line break away
RECURSIVE OrderLines(_)
OrderLines(os) ==
    IF os = <<>> THEN <<>>
    ELSE <<"\n", Bullet, Head(os).date, " (", Head(os).day_of_week, "): ">>
         \o ItemsText(Head(os).items) \o <<" - $", Head(os).total>>
         \o OrderLines(Tail(os))

\* orders[-3:]
LastThree(os) == SubSeq(os, IF Len(os) > 3 THEN Len(os) - 2 ELSE 1, Len(os))

_format_multiple_orders_response(os) ==
    IF Len(os) = 1 THEN _format_order_response(os[1])
    ELSE <<"Found ", Len(os), " orders:">> \o OrderLines(LastThree(os))

\* the found result built without the test of line 174
_search_last_week_unchecked(os, user_id, today) ==
    LET last_week_start == LastWeekStart(today)
        last_week_end == last_week_start + 6
        found == get_orders_by_date_range(os, last_week_start, last_week_end, user_id)
    IN  [found |-> TRUE,
         message |-> <<"Found ", Len(found), " orders from last week">>,
         orders |-> found,
         formatted_response |-> _format_multiple_orders_response(found)]

_search_last_week(os, user_id, today) ==
    LET last_week_start == LastWeekStart(today)
        last_week_end == last_week_start + 6
        found == get_orders_by_date_range(os, last_week_start, last_week_end, user_id)
    IN  IF found = <<>>
        THEN [found |-> FALSE,
              message |-> <<"No orders found from last week">>,
              orders |-> <<>>]
        ELSE [found |-> TRUE,
              message |-> <<"Found ", Len(found), " orders from last week">>,
              orders |-> found,
              formatted_response |-> _format_multiple_orders_response(found)]

_search_latest(os, user_id) ==
    LET latest_order == get_latest_order(os, user_id)
    IN  IF latest_order = <<>>
        THEN [found |-> FALSE,
              message |-> <<"No orders found">>,
              orders |-> <<>>]
        ELSE [found |-> TRUE,
              message |-> <<"Found your latest order from ", latest_order[1].date>>,
              orders |-> latest_order,
              formatted_response |-> _format_order_response(latest_order[1])]

food_keywords ==
    <<"pizza", "burger", "pasta", "salad", "wings", "fish", "chicken", "nachos">>

RECURSIVE FoodLoop(_, _, _, _)
\* lines 211-227: the first keyword of the query that has orders, from keyword i on
FoodLoop(os, query, user_id, i) ==
    IF i > Len(food_keywords)
    THEN [found |-> FALSE,
          message |-> <<"No orders found for that food item">>,
          orders |-> <<>>]
    ELSE LET keyword == food_keywords[i]
             found == get_orders_by_item_name(os, Word(keyword), user_id)
         IN  IF In(Word(keyword), query) /\ found # <<>>
             THEN [found |-> TRUE,
                   message |-> <<"Found ", Len(found), " orders containing ", keyword>>,
                   orders |-> found,
                   formatted_response |-> _format_multiple_orders_response(found)]
             ELSE FoodLoop(os, query, user_id, i + 1)

_search_by_food_item(os, query, user_id) == FoodLoop(os, query, user_id, 1)

_search_general(os, query, user_id) == _search_latest(os, user_id)

\* the foods whose mention sends a query to the food search (line 137)
FoodTriggers == {"pizza", "burger", "pasta", "salad", "wings", "fish"}

\* search_orders reads the clock: its last-week branch runs (lines 133-134)
AsksWeek(query) ==
    LET query_lower == lower(query)
        Has(text) == In(Word(text), query_lower)
    IN  /\ ~(Has("last friday") \/ Has("friday"))
        /\ ~(Has("last monday") \/ Has("monday"))
        /\ Has("last week") \/ Has("week")

search_orders(os, query, user_id, today) ==
    LET query_lower == lower(query)
        Has(text) == In(Word(text), query_lower)
    IN  IF Has("last friday") \/ Has("friday")
        THEN _search_by_day(os, "Friday", user_id)
        ELSE IF Has("last monday") \/ Has("monday")
        THEN _search_by_day(os, "Monday", user_id)
        ELSE IF Has("last week") \/ Has("week")
        THEN _search_last_week(os, user_id, today)
        ELSE IF Has("latest") \/ Has("most recent")
        THEN _search_latest(os, user_id)
        ELSE IF \E food \in FoodTriggers : Has(food)
        THEN _search_by_food_item(os, query_lower, user_id)
        ELSE _search_general(os, query_lower, user_id)

----------------------------------------------------------------------------
(* IntelligentOrderSearch.execute_search *)

RECURSIVE Unique(_, _, _, _)
\* lines 363-370: keep the first order of each id, stop once limit are kept
Unique(results, seen_ids, unique_results, limit) ==
    IF results = <<>> THEN unique_results
    ELSE LET order == Head(results)
         IN  IF order.id \notin seen_ids
             THEN IF Len(unique_results) + 1 >= limit
                  THEN Append(unique_results, order)
                  ELSE Unique(Tail(results), seen_ids \cup {order.id},
                              Append(unique_results, order), limit)
             ELSE Unique(Tail(results), seen_ids, unique_results, limit)

\* the chain with the food item tested before the day of week
Candidates_food_first(os, query_params, user_id, today) ==
    IF "food_item" \in DOMAIN query_params
    THEN get_orders_by_item_name(os, query_params["food_item"], user_id)
    ELSE IF "day_of_week" \in DOMAIN query_params
    THEN get_orders_by_day_of_week(os, query_params["day_of_week"], user_id)
    ELSE IF "time_period" \in DOMAIN query_params
    THEN IF query_params["time_period"] = "latest"
         THEN get_latest_order(os, user_id)
         ELSE IF query_params["time_period"] = "last_week"
         THEN get_orders_by_date_range(os, LastWeekStart(today),
                                       LastWeekStart(today) + 6, user_id)
         ELSE <<>>
    ELSE IF "date" \in DOMAIN query_params
    THEN get_orders_by_date(os, query_params["date"], user_id)
    ELSE get_latest_order(os, user_id)

\* lines 323-360: the one branch of the if/elif chain that runs
Candidates(os, query_params, user_id, today) ==
    IF "day_of_week" \in DOMAIN query_params
    THEN get_orders_by_day_of_week(os, query_params["day_of_week"], user_id)
    ELSE IF "food_item" \in DOMAIN query_params
    THEN get_orders_by_item_name(os, query_params["food_item"], user_id)
    ELSE IF "time_period" \in DOMAIN query_params
    THEN IF query_params["time_period"] = "latest"
         THEN get_latest_order(os, user_id)
         ELSE IF query_params["time_period"] = "last_week"
         THEN get_orders_by_date_range(os, LastWeekStart(today),
                                       LastWeekStart(today) + 6, user_id)
         ELSE <<>>
    ELSE IF "date" \in DOMAIN query_params
    THEN get_orders_by_date(os, query_params["date"], user_id)
    ELSE get_latest_order(os, user_id)

execute_search(os, query_params, today) ==
    LET user_id == Get(query_params, "user_id", DefaultUser)
        limit == Get(query_params, "limit", 1)
    IN  Unique(Candidates(os, query_params, user_id, today), {}, <<>>, limit)

----------------------------------------------------------------------------
(* IntelligentOrderSearch.search_orders, the LLM-assisted strategy *)

\* what query_llm.invoke(prompt) can come to: it raises, or json.loads finds in
\* its content no JSON, or JSON that is no object, or a parameter record
InvokeRaises == [kind |-> "raises"]
NotJson == [kind |-> "no JSON"]
NotAnObject == [kind |-> "array"]
Answer(query_params) == [kind |-> "object", value |-> query_params]

\* generate_search_query returning no parameters where it should raise
generate_search_query_lenient(configured, response) ==
    IF ~configured
    THEN [query_params |-> Answer(<<>>), invoked |-> FALSE]
    ELSE IF response = InvokeRaises \/ response = NotJson
    THEN [query_params |-> Answer(<<>>), invoked |-> TRUE]
    ELSE [query_params |-> response, invoked |-> TRUE]

\* the value json.loads gives, or the exception raised; invoked tells whether
\* the LLM was asked
generate_search_query(configured, response) ==
    IF ~configured
    THEN [raised |-> "Query LLM not initialized. Cannot generate search query.",
          invoked |-> FALSE]
    ELSE IF response = InvokeRaises \/ response = NotJson
    THEN [raised |-> "Failed to generate search query", invoked |-> TRUE]
    ELSE [query_params |-> response, invoked |-> TRUE]

\* execute_search reads the clock: the last_week branch runs (lines 340-341)
ReadsClock(query_params) ==
    /\ "day_of_week" \notin DOMAIN query_params
    /\ "food_item" \notin DOMAIN query_params
    /\ "time_period" \in DOMAIN query_params
    /\ query_params["time_period"] = "last_week"

\* the number of lookups execute_search makes in the store: one for the branch
\* that runs, none for a time_period that is neither latest nor last_week
Lookups(query_params) ==
    IF /\ "day_of_week" \notin DOMAIN query_params
       /\ "food_item" \notin DOMAIN query_params
       /\ "time_period" \in DOMAIN query_params
       /\ query_params["time_period"] \notin {"latest", "last_week"}
    THEN 0 ELSE 1

\* lines 383-389
FormatResults(results) ==
    IF results = <<>> THEN <<"No orders found matching your criteria.">>
    ELSE IF Len(results) = 1 THEN _format_order_response(results[1])
    ELSE _format_multiple_orders_response(results)

\* IntelligentOrderSearch.search_orders: the text returned or the exception
\* raised, with whether the LLM was asked and the lookups made in the store
assisted_search_orders(os, configured, response, today) ==
    LET generated == generate_search_query(configured, response)
    IN  IF "raised" \in DOMAIN generated
        THEN [ret |-> [raised |-> generated.raised],
              invoked |-> generated.invoked, lookups |-> 0]
        ELSE IF generated.query_params = NotAnObject
        THEN \* query_params.get on a list (line 318)
             [ret |-> [raised |-> "AttributeError"],
              invoked |-> generated.invoked, lookups |-> 0]
        ELSE LET query_params == generated.query_params.value
             IN  [ret |-> [returned |->
                              FormatResults(execute_search(os, query_params, today))],
                  invoked |-> generated.invoked,
                  lookups |-> Lookups(query_params)]

\* the tool: search_order_history(query, user_id)
search_order_history(os, configured, response, today) ==
    assisted_search_orders(os, configured, response, today)

----------------------------------------------------------------------------
(* The order store and its searches: SpecOrders *)

Days == {"Friday", "Monday", "Sunday"}
Todays == 13..20                       \* a Sunday and the seven days of the week after it
Unread == -1                           \* no day: the clock of a call that does not read it

\* the texts the deterministic search is asked with
Queries ==
    {"last Friday", "Monday", "tuesday", "last week", "this week", "latest order",
     "LATEST", "most recent", "pizza", "wings and pizza", "chicken", "fish",
     "hello", "latest pizza on friday"}

Dates == {11, 12}                       \* the dates an exact lookup is asked with

RangeDates == {4, 8, 11, 12}            \* the ends a date range is asked with

\* the texts an item search is asked with
ItemNames == {pie, DIP, <<"P", "I">>, <<"i", "P">>, <<"x">>, <<>>}

Opt(key, values) == { <<>> } \cup { (key :> v) : v \in values }

\* the parameter records the query LLM can produce
QueryParams ==
    { u @@ l @@ d @@ f @@ t @@ e :
        u \in Opt("user_id", {"user_b"}),
        l \in Opt("limit", {0, 1, 2}),
        d \in Opt("day_of_week", {"Friday"}),
        f \in Opt("food_item", {pie, DIP}),
        t \in Opt("time_period", {"latest", "last_week", "last_month"}),
        e \in Opt("date", {11}) }

\* db.add_order(order): the append, then save_orders; the value is None unless
\* the save raised
AddOrder ==
    /\ call = Idle
    /\ Len(orders) + Len(intelligent_search_orders) < MaxOrders
    /\ \E order \in OrderUniverse, outcome \in SaveOutcomes :
          LET saved == save_orders(file, add_order(orders, order), outcome)
          IN  /\ call' = [op |-> "add_order", order |-> order, outcome |-> outcome]
              /\ orders' = add_order(orders, order)
              /\ file' = saved.file
              /\ ret' = IF saved.raised THEN [raised |-> "Exception"]
                        ELSE [returned |-> None]
    /\ UNCHANGED <<model_with_tools, query_llm, _sessions, savelog, trace, inflight,
                   intelligent_search_orders>>

\* intelligent_search.execute_search(query_params), the clock reading today
ExecuteSearch ==
    /\ call = Idle
    /\ \E query_params \in QueryParams, today \in Todays \cup {Unread} :
          /\ (today = Unread) = ~ReadsClock(query_params)
          /\ call' = [op |-> "execute_search", query_params |-> query_params,
                      today |-> today]
          /\ ret' = execute_search(orders, query_params, today)
    /\ UNCHANGED <<model_with_tools, query_llm, _sessions, savelog, orders, file, trace, inflight,
                   intelligent_search_orders>>

\* order_search_tool._search_by_day(day, user_id)
SearchByDay ==
    /\ call = Idle
    /\ \E day \in Days, user_id \in Users :
          /\ call' = [op |-> "_search_by_day", day |-> day, user_id |-> user_id]
          /\ ret' = _search_by_day(orders, day, user_id)
    /\ UNCHANGED <<model_with_tools, query_llm, _sessions, savelog, orders, file, trace, inflight,
                   intelligent_search_orders>>

\* order_search_tool.search_orders(query, user_id), the clock reading today
SearchOrders ==
    /\ call = Idle
    /\ \E query \in Queries, user_id \in Users, today \in Todays \cup {Unread} :
          /\ (today = Unread) = ~AsksWeek(Word(query))
          /\ call' = [op |-> "search_orders", query |-> query, user_id |-> user_id,
                      today |-> today]
          /\ ret' = search_orders(orders, Word(query), user_id, today)
    /\ UNCHANGED <<model_with_tools, query_llm, _sessions, savelog, orders, file, trace, inflight,
                   intelligent_search_orders>>

\* db.get_orders_by_date(date, user_id)
GetOrdersByDate ==
    /\ call = Idle
    /\ \E date \in Dates, user_id \in Users :
          /\ call' = [op |-> "get_orders_by_date", date |-> date, user_id |-> user_id]
          /\ ret' = get_orders_by_date(orders, date, user_id)
    /\ UNCHANGED <<model_with_tools, query_llm, _sessions, savelog, orders, file, trace, inflight,
                   intelligent_search_orders>>

\* db.get_orders_by_day_of_week(day_of_week, user_id)
GetOrdersByDayOfWeek ==
    /\ call = Idle
    /\ \E day_of_week \in Days, user_id \in Users :
          /\ call' = [op |-> "get_orders_by_day_of_week", day_of_week |-> day_of_week,
                      user_id |-> user_id]
          /\ ret' = get_orders_by_day_of_week(orders, day_of_week, user_id)
    /\ UNCHANGED <<model_with_tools, query_llm, _sessions, savelog, orders, file, trace, inflight,
                   intelligent_search_orders>>

\* db.get_latest_order(user_id)
GetLatestOrder ==
    /\ call = Idle
    /\ \E user_id \in Users :
          /\ call' = [op |-> "get_latest_order", user_id |-> user_id]
          /\ ret' = get_latest_order(orders, user_id)
          /\ orders' = after_get_latest_order(orders, user_id)
    /\ UNCHANGED <<model_with_tools, query_llm, _sessions, savelog, file, trace, inflight,
                   intelligent_search_orders>>

\* db.get_orders_by_date_range(start_date, end_date, user_id)
GetOrdersByDateRange ==
    /\ call = Idle
    /\ \E start_date \in RangeDates, end_date \in RangeDates, user_id \in Users :
          /\ call' = [op |-> "get_orders_by_date_range", start_date |-> start_date,
                      end_date |-> end_date, user_id |-> user_id]
          /\ ret' = get_orders_by_date_range(orders, start_date, end_date, user_id)
    /\ UNCHANGED <<model_with_tools, query_llm, _sessions, savelog, orders, file, trace, inflight,
                   intelligent_search_orders>>

\* db.get_orders_by_item_name(item_name, user_id)
GetOrdersByItemName ==
    /\ call = Idle
    /\ \E item_name \in ItemNames, user_id \in Users :
          /\ call' = [op |-> "get_orders_by_item_name", item_name |-> item_name,
                      user_id |-> user_id]
          /\ ret' = get_orders_by_item_name(orders, item_name, user_id)
    /\ UNCHANGED <<model_with_tools, query_llm, _sessions, savelog, orders, file, trace, inflight,
                   intelligent_search_orders>>

NextOrders ==
    \/ AddOrder
    \/ ExecuteSearch
    \/ SearchByDay
    \/ SearchOrders
    \/ GetOrdersByDate
    \/ GetOrdersByDayOfWeek
    \/ GetLatestOrder
    \/ GetOrdersByDateRange
    \/ GetOrdersByItemName
    \/ Return

\* the chat service plays no part here: take it configured
InitOrders == Init /\ model_with_tools /\ query_llm

SpecOrders == InitOrders /\ [][NextOrders]_vars

----------------------------------------------------------------------------
(* The order tool as the chat service calls it: SpecAssist *)

\* the parameter records the query LLM answers with here
AssistParams ==
    {q \in QueryParams : "food_item" \notin DOMAIN q /\ "date" \notin DOMAIN q}

Responses ==
    {InvokeRaises, NotJson, NotAnObject} \cup {Answer(q) : q \in AssistParams}

\* the response of an LLM that is not asked
NoResponse == [kind |-> "unasked"]

\* search_order_history.invoke({"query": query, "user_id": user_id}); the query
\* and the user id go into the prompt only
SearchOrderHistory ==
    /\ call = Idle
    /\ \E query \in {"last Friday"}, user_id \in Users,
          response \in Responses \cup {NoResponse}, today \in Todays \cup {Unread} :
          \* the LLM answers when it is asked
          /\ (response = NoResponse) = ~generate_search_query(query_llm, response).invoked
          /\ (today = Unread) =
                ~(response.kind = "object" /\ ReadsClock(response.value))
          /\ LET out == search_order_history(orders, query_llm, response, today)
             IN  /\ call' = [op |-> "search_order_history", query |-> query,
                             user_id |-> user_id, response |-> response,
                             today |-> today]
                 /\ ret' = out.ret
                 /\ trace' = [invoked |-> out.invoked, lookups |-> out.lookups]
    /\ UNCHANGED <<model_with_tools, query_llm, _sessions, savelog, orders, file, inflight,
                   intelligent_search_orders>>

NextAssist == AddOrder \/ SearchOrderHistory \/ Return

\* the chat service plays no part here: take it configured
InitAssist == Init /\ model_with_tools

SpecAssist == InitAssist /\ [][NextAssist]_vars

----------------------------------------------------------------------------
(* Requests that wait for the model at the same time: SpecAsync *)

(* A chat_once gives way to other requests only where it waits for the model:  *)
(* at the first invoke and, in the tool branch, at the second.  A step runs a  *)
(* request from one such point to the next, or to its return.                  *)

\* the first responses taken here: a failure, a final content, one tool call
AsyncFirstResponses ==
    {r \in FirstResponses : Len(r.tool_calls) <= 1}

\* the save_context call of a request, for savelog
Logged(log, session_id, message, reply) ==
    LET entry == [inputs |-> [message |-> message, session_id |-> session_id],
                  outputs |-> [reply |-> reply]]
    IN  IF session_id \in DOMAIN log
        THEN [log EXCEPT ![session_id] = Append(@, entry)]
        ELSE log @@ (session_id :> <<entry>>)

InFlight == {slot \in Slots : inflight[slot] # Free}

\* a request arrives and runs up to its first model.invoke
Begin(slot) ==
    /\ inflight[slot] = Free
    /\ StoredTurns(_sessions) + 2 * Cardinality(InFlight) + 2 <= 2 * MaxExchanges
    /\ \E message \in Messages, session_id \in SessionIds \cup {None}, uuid \in Uuids :
          LET begun == UpToFirstInvoke(_sessions, message, session_id, uuid)
          IN  \* uuid4() gives an id that no session and no request has
              /\ Falsy(session_id) =>
                    /\ uuid \notin DOMAIN _sessions
                    /\ \A other \in InFlight : inflight[other].session_id # uuid
              /\ inflight' = [inflight EXCEPT ![slot] =
                                 [at |-> "first invoke", message |-> message,
                                  session_id |-> begun.session_id,
                                  messages |-> begun.messages]]
              /\ _sessions' = begun.sessions
    /\ UNCHANGED <<model_with_tools, query_llm, savelog, orders, file, call, ret, trace,
                   intelligent_search_orders>>

\* a request runs from the point where it waits, the model answering response,
\* to its return: out is what chat_once comes to from there
Finish(slot, out) ==
    LET request == inflight[slot]
    IN  /\ inflight' = [inflight EXCEPT ![slot] = Free]
        /\ _sessions' = out.sessions
        /\ savelog' = IF out.sessions = _sessions THEN savelog
                       ELSE Logged(savelog, request.session_id, request.message,
                                   out.ret.reply)
        /\ UNCHANGED <<model_with_tools, query_llm, orders, file, call, ret, trace, intelligent_search_orders>>

\* the first model.invoke returns or raises
FirstInvoke(slot) ==
    /\ inflight[slot] # Free
    /\ inflight[slot].at = "first invoke"
    /\ \E r1 \in AsyncFirstResponses :
          LET request == inflight[slot]
          IN  IF r1.raises
              THEN Finish(slot, ExceptHandler(_sessions, request.message,
                           request.session_id,
                           [NoTrace EXCEPT !.invoked = <<request.messages>>]))
              ELSE IF r1.tool_calls # <<>>
              THEN \* the tools run, then the request waits for the model again
                   /\ inflight' = [inflight EXCEPT ![slot] =
                                      [request EXCEPT !.at = "second invoke"]
                                          @@ [response |-> r1]]
                   /\ UNCHANGED <<model_with_tools, query_llm, _sessions, savelog,
                                  orders, file, call, ret, trace,
                                  intelligent_search_orders>>
              ELSE Finish(slot, AfterFirstResponse(_sessions, request.message,
                           request.session_id, request.messages, r1, Unasked))

\* the second model.invoke returns or raises
SecondInvokeReturns(slot) ==
    /\ inflight[slot] # Free
    /\ inflight[slot].at = "second invoke"
    /\ \E r2 \in SecondResponses :
          LET request == inflight[slot]
          IN  Finish(slot, AfterFirstResponse(_sessions, request.message,
                  request.session_id, request.messages, request.response, r2))

NextAsync ==
    \E slot \in Slots : Begin(slot) \/ FirstInvoke(slot) \/ SecondInvokeReturns(slot)

InitAsync == Init /\ model_with_tools /\ query_llm

SpecAsync == InitAsync /\ [][NextAsync]_vars

----------------------------------------------------------------------------
(* SimpleMemory driven directly: SpecMemory *)

AllIds == SessionIds \cup Uuids \cup {"default"}

\* the inputs and outputs dicts a caller can pass to save_context
SaveInputs ==
    { <<>> } \cup { [session_id |-> s] : s \in SessionIds }
    \cup { [message |-> m] : m \in Messages }
    \cup { [session_id |-> s, message |-> m] : s \in SessionIds, m \in Messages }
SaveOutputs == { <<>>, [reply |-> "r1"] }

Saves(log) ==
    LET RECURSIVE Sum(_)
        Sum(S) == IF S = {} THEN 0
                  ELSE LET s == CHOOSE x \in S : TRUE
                       IN  Len(log[s]) + Sum(S \ {s})
    IN  Sum(DOMAIN log)

\* memory.save_context(inputs, outputs)
SaveContext ==
    /\ Saves(savelog) < MaxSaves
    /\ \E inputs \in SaveInputs, outputs \in SaveOutputs :
          LET session_id == Get(inputs, "session_id", "default")
              entry == [inputs |-> inputs, outputs |-> outputs]
          IN  /\ _sessions' = save_context(_sessions, inputs, outputs)
              /\ savelog' = IF session_id \in DOMAIN savelog
                            THEN [savelog EXCEPT ![session_id] = Append(@, entry)]
                            ELSE savelog @@ (session_id :> <<entry>>)
    /\ UNCHANGED <<model_with_tools, query_llm, orders, file, call, ret, trace, inflight,
                   intelligent_search_orders>>

NextMemory == SaveContext

\* the chat service plays no part here: take it configured
InitMemory == Init /\ model_with_tools /\ query_llm

SpecMemory == InitMemory /\ [][NextMemory]_vars

----------------------------------------------------------------------------
(* The two store instances of the module: order_search_tool.db (its list is
   orders) and intelligent_search.db, both built on "orders.json"
   (order_tool.py:113 and 257).  Each has loaded the file once, at construction,
   and rewrites it with its own list on every add_order. *)

\* intelligent_search.db.add_order(order)
AddOrderIntelligent ==
    /\ call = Idle
    /\ Len(orders) + Len(intelligent_search_orders) < MaxOrders
    /\ \E order \in OrderUniverse, outcome \in SaveOutcomes :
          LET saved == save_orders(file, add_order(intelligent_search_orders, order),
                                   outcome)
          IN  /\ call' = [op |-> "add_order", db |-> "intelligent_search",
                          order |-> order, outcome |-> outcome]
              /\ intelligent_search_orders' = add_order(intelligent_search_orders, order)
              /\ file' = saved.file
              /\ ret' = IF saved.raised THEN [raised |-> "Exception"]
                        ELSE [returned |-> None]
    /\ UNCHANGED <<model_with_tools, query_llm, _sessions, savelog, orders, trace, inflight>>

NextShared == AddOrder \/ AddOrderIntelligent \/ Return

\* both instances are built when the module is imported, from the same file
InitShared == Init /\ model_with_tools /\ query_llm

SpecShared == InitShared /\ [][NextShared]_vars

----------------------------------------------------------------------------
(* Claims on the conversation store and the orchestrator *)

\* the session id a chat_once call works on
Resolved(c) == IF c.session_id \in {None, ""} THEN c.uuid ELSE c.session_id

ChatCall == call.op = "chat_once"

FullPair(entry) == "message" \in DOMAIN entry.inputs /\ "reply" \in DOMAIN entry.outputs

\* C1: for every session id, after N save_context calls that each carry a
\* message and a reply, load_memory_variables returns exactly 2N turns: the
\* i-th call's user message at 2i-1 and its assistant reply at 2i.
C1_TwoTurnsPerSave ==
    \A s \in AllIds :
        LET log == Get(savelog, s, <<>>)
            turns == load_memory_variables(_sessions,
                         IF s = "default" THEN <<>> ELSE [session_id |-> s]).messages
        IN  (\A i \in 1..Len(log) : FullPair(log[i]))
            => /\ Len(turns) = 2 * Len(log)
               /\ \A i \in 1..Len(log) :
                    /\ turns[2 * i - 1] = [type |-> "human", content |-> log[i].inputs["message"]]
                    /\ turns[2 * i] = [type |-> "ai", content |-> log[i].outputs["reply"]]

\* two full saves for "a" with different messages, and a save for another session
C1_Witness ==
    /\ "a" \in DOMAIN savelog /\ Len(savelog["a"]) = 2
    /\ \A i \in 1..2 : FullPair(savelog["a"][i])
    /\ savelog["a"][1].inputs["message"] # savelog["a"][2].inputs["message"]
    /\ "default" \in DOMAIN savelog
    /\ Len(_sessions["a"]) = 4

C3_EchoWithoutModel ==
    (ChatCall /\ ~model_with_tools) =>
        /\ ret.reply = "echo: " \o call.message
        /\ ret.message_count = 0
        /\ call.session_id \notin {None, ""} => ret.session_id = call.session_id

C3_Witness ==
    /\ ChatCall /\ ~model_with_tools
    /\ call.session_id = "b" /\ call.message = "m2"
    /\ ret.reply = "echo: m2"

Succeeded(c) == model_with_tools /\ ~c.r1.raises /\ ~c.r2.raises

\* the reply a successful call must give
FinalOf(c) == IF c.r1.tool_calls # <<>> THEN c.r2.content ELSE c.r1.content

\* C4: a chat_once that completes without failure appends exactly the pair
\* (user message, final reply) to the end of its session's turns and returns
\* the session's number of turns after the append.
C4_AppendsPair ==
    [][ (call.op = "idle" /\ call'.op = "chat_once" /\ Succeeded(call'))
        => LET sid == Resolved(call')
               before == Get(_sessions, sid, <<>>)
           IN  /\ sid \in DOMAIN _sessions'
               /\ _sessions'[sid] =
                     before \o << [type |-> "human", content |-> call'.message],
                                  [type |-> "ai", content |-> FinalOf(call')] >>
               /\ ret'.reply = FinalOf(call')
               /\ ret'.session_id = sid
               /\ ret'.message_count = Len(before) + 2 ]_vars

\* a second exchange of session "a", answered after a tool round-trip
C4_Witness ==
    /\ ChatCall /\ Succeeded(call)
    /\ call.session_id = "a"
    /\ call.r1.tool_calls # <<>> /\ call.r1.content # call.r2.content
    /\ ret.message_count = 4
    /\ ret.reply = call.r2.content

\* C5: a chat_once call (and the save_context in it) for session id s leaves
\* the turns of every other session id, and whether it exists, unchanged.
C5_SessionsIsolated ==
    [][ (call.op = "idle" /\ call'.op = "chat_once")
        => \A s \in AllIds \ {Resolved(call')} :
              /\ (s \in DOMAIN _sessions') = (s \in DOMAIN _sessions)
              /\ Get(_sessions', s, <<>>) = Get(_sessions, s, <<>>) ]_vars

\* "a" and "b" each got one message; the call for "b" has just stored its pair
C5_Witness ==
    /\ ChatCall /\ call.session_id = "b" /\ call.message = "m2"
    /\ DOMAIN _sessions = {"a", "b"}
    /\ _sessions["a"] = << HumanMessage("m1"), AIMessage("r1") >>
    /\ _sessions["b"] = << HumanMessage("m2"), AIMessage("r2") >>

\* C6: the model is invoked once when its first response asks for no tool and
\* exactly twice when it does; no tool call of the second response is executed
\* and the second response's content is the reply.
C6_OneRoundTrip ==
    (ChatCall /\ model_with_tools /\ ~call.r1.raises) =>
        /\ call.r1.tool_calls = <<>> => Len(trace.invoked) = 1
        /\ call.r1.tool_calls # <<>> =>
              /\ Len(trace.invoked) = 2
              /\ \A i \in 1..Len(trace.executed), j \in 1..Len(call.r2.tool_calls) :
                    trace.executed[i] # call.r2.tool_calls[j]
              /\ ~call.r2.raises => ret.reply = call.r2.content

\* the second response asks for a tool again and its content is returned
C6_Witness ==
    /\ ChatCall /\ model_with_tools
    /\ call.r1.tool_calls # <<>>
    /\ call.r2.tool_calls # <<>>
    /\ Len(trace.invoked) = 2
    /\ ret.reply = "r2"

Registered(tool_call) == \E i \in 1..Len(ORDER_TOOLS) : ORDER_TOOLS[i] = tool_call.name

ToolBranch == ChatCall /\ model_with_tools /\ ~call.r1.raises /\ call.r1.tool_calls # <<>>

\* C7 as stated: every tool call the response requests is executed, in
\* request order, and adds exactly one entry to the tool results.
C7_EveryCallOneEntry ==
    ToolBranch =>
        /\ trace.executed = call.r1.tool_calls
        /\ Len(trace.tool_results) = Len(call.r1.tool_calls)

\* C7: every requested tool call that names a registered tool is executed, in
\* request order, and adds exactly one entry, its result or its error text; a
\* call naming no registered tool is skipped and adds none; a failing tool
\* neither stops the later calls nor turns the request into the echo.
C7_RegisteredCallsOneEntry ==
    ToolBranch =>
        /\ trace.executed = SelectSeq(call.r1.tool_calls, Registered)
        /\ Len(trace.tool_results) = Len(trace.executed)
        /\ \A i \in 1..Len(trace.executed) :
              LET tc == trace.executed[i]
              IN  trace.tool_results[i] =
                     IF ToolRaises(tc)
                     THEN "Tool " \o tc.name \o " error: " \o ToolError(tc)
                     ELSE "Tool " \o tc.name \o ": " \o ToolResult(tc)
        /\ ~call.r2.raises => /\ ret.reply = call.r2.content
                              /\ ret.message_count > 0

\* a failing call first, a succeeding one after it, and the model's reply returned
C7_Witness ==
    /\ ToolBranch
    /\ Len(call.r1.tool_calls) = 2
    /\ ToolRaises(call.r1.tool_calls[1]) /\ Registered(call.r1.tool_calls[1])
    /\ ~ToolRaises(call.r1.tool_calls[2]) /\ Registered(call.r1.tool_calls[2])
    /\ Len(trace.tool_results) = 2
    /\ ret.reply = "r2"

----------------------------------------------------------------------------
(* Claims on the order searches *)

SearchCall == call.op = "execute_search"

\* C8: the list execute_search returns holds each order id at most once and
\* is no longer than the requested limit (default 1), whatever the limit.
C8_UniqueAndLimited ==
    SearchCall =>
        /\ \A i, j \in 1..Len(ret) : ret[i].id = ret[j].id => i = j
        /\ Len(ret) <= Get(call.query_params, "limit", 1)

\* the filter dimension of highest priority among the keys present
Honoured(query_params) ==
    IF "day_of_week" \in DOMAIN query_params THEN "day_of_week"
    ELSE IF "food_item" \in DOMAIN query_params THEN "food_item"
    ELSE IF "time_period" \in DOMAIN query_params THEN "time_period"
    ELSE IF "date" \in DOMAIN query_params THEN "date"
    ELSE "latest fallback"

\* the query with every filter dimension but the honoured one taken out
Stripped(query_params) ==
    [k \in DOMAIN query_params \cap {"user_id", "limit", Honoured(query_params)}
        |-> query_params[k]]

\* what the honoured dimension asks of an order, said without the store's lookups
Satisfies(order, query_params, today) ==
    LET dim == Honoured(query_params)
        week == (today - (today % 7)) - 7
    IN  CASE dim = "day_of_week" -> order.day_of_week = query_params["day_of_week"]
          [] dim = "food_item" ->
                \E i \in 1..Len(order.items) :
                    In(lower(query_params["food_item"]), lower(order.items[i].name))
          [] dim = "time_period" ->
                \/ query_params["time_period"] = "latest"
                \/ /\ query_params["time_period"] = "last_week"
                   /\ order.date \in week..(week + 6)
          [] dim = "date" -> order.date = query_params["date"]
          [] OTHER -> TRUE

OrdersOf(user_id) == { orders[i] : i \in { j \in 1..Len(orders) : orders[j].user_id = user_id } }

\* C9: execute_search honours one filter dimension, the present one of highest
\* priority (day-of-week > food-item > time-period > exact date): the other
\* dimensions present change nothing in the result, every order returned is
\* an order of the user that meets the honoured dimension, and with no
\* dimension present the result is the user's most recent order.
C9_OneDimension ==
    SearchCall =>
        LET q == call.query_params
            user_id == Get(q, "user_id", "user_darshan")
        IN  /\ ret = execute_search(orders, Stripped(q), call.today)
            /\ \A i \in 1..Len(ret) :
                  /\ ret[i] \in OrdersOf(user_id)
                  /\ Satisfies(ret[i], q, call.today)
            /\ Honoured(q) = "latest fallback" =>
                  IF OrdersOf(user_id) = {} THEN ret = <<>>
                  ELSE /\ Len(ret) = 1
                       /\ \A o \in OrdersOf(user_id) : o.date <= ret[1].date

\* day of week, food item and date all present: an order that misses the food
\* item is returned, and an order that has it but misses the day is not
C9_Witness ==
    /\ SearchCall
    /\ {"day_of_week", "food_item", "date"} \subseteq DOMAIN call.query_params
    /\ \E i \in 1..Len(ret) :
          /\ ret[i].date # call.query_params["date"]
          /\ ~\E k \in 1..Len(ret[i].items) :
                In(lower(call.query_params["food_item"]), lower(ret[i].items[k].name))
    /\ \E o \in OrdersOf(Get(call.query_params, "user_id", "user_darshan")) :
          /\ o.day_of_week # call.query_params["day_of_week"]
          /\ \E k \in 1..Len(o.items) :
                In(lower(call.query_params["food_item"]), lower(o.items[k].name))

\* with no filter key the most recent order comes back, not the first stored
C9_WitnessFallback ==
    /\ SearchCall
    /\ Honoured(call.query_params) = "latest fallback"
    /\ Len(ret) = 1 /\ Len(orders) >= 2 /\ ret[1] # orders[1]

\* C10: _search_by_day(d, u) returns found = TRUE and exactly one order, one
\* with the greatest date among u's orders whose day_of_week is d, when such
\* an order exists; otherwise found = FALSE and an empty order list.
C10_DaySearch ==
    call.op = "_search_by_day" =>
        LET matching == { o \in OrdersOf(call.user_id) : o.day_of_week = call.day }
        IN  IF matching # {}
            THEN /\ ret.found = TRUE
                 /\ Len(ret.orders) = 1
                 /\ ret.orders[1] \in matching
                 /\ \A o \in matching : o.date <= ret.orders[1].date
            ELSE /\ ret.found = FALSE
                 /\ ret.orders = <<>>

\* three matching orders, the most recent one stored between two older ones
C10_Witness ==
    /\ call.op = "_search_by_day"
    /\ Len(orders) = 3
    /\ \A i \in 1..3 : orders[i].day_of_week = call.day /\ orders[i].user_id = call.user_id
    /\ orders[1].date < orders[2].date /\ orders[3].date < orders[2].date
    /\ ret.found /\ ret.orders = <<orders[2]>>

\* no order of the user on that day
C10_WitnessNone ==
    /\ call.op = "_search_by_day"
    /\ Len(orders) >= 2
    /\ ret.found = FALSE

----------------------------------------------------------------------------
(* Claims on the history read *)

\* one {role, content} record for each stored turn of the session, in order
Projection(sessions, session_id) ==
    IF session_id \notin DOMAIN sessions THEN <<>>
    ELSE [i \in 1..Len(sessions[session_id]) |->
             [role |-> IF sessions[session_id][i].type = "human"
                       THEN "user" ELSE "assistant",
              content |-> sessions[session_id][i].content]]

\* C14: get_chat_history(session_id) is a pure projection of the session: one
\* {role, content} record for each stored turn, in order and with the role kept,
\* the empty list for an unknown session id; the call leaves the conversation
\* store unchanged and does not create the session.
C14_HistoryProjection ==
    [][(call.op = "idle" /\ call'.op = "get_chat_history")
          => /\ ret' = Projection(_sessions, call'.session_id)
             /\ _sessions' = _sessions]_vars

\* the history of a session of two turns or more has been read
C14_Witness ==
    /\ call.op = "get_chat_history"
    /\ Len(ret) >= 2
    /\ ret[1].role = "user" /\ ret[2].role = "assistant"

\* the history of an unknown session has been read beside a known one
C14_WitnessUnknown ==
    /\ call.op = "get_chat_history"
    /\ call.session_id \notin DOMAIN _sessions
    /\ _sessions # <<>>
    /\ ret = <<>>

----------------------------------------------------------------------------
(* Claims on the order store's reads and writes *)

\* the entries of a list at the positions in I, in the list's order
Picked(list, I) ==
    [k \in 1..Cardinality(I) |->
        list[CHOOSE i \in I : Cardinality({j \in I : j < i}) = k - 1]]

RangeCall == call.op = "get_orders_by_date_range"

\* the positions of the store a date range call is to return
InRange ==
    {i \in 1..Len(orders) : /\ orders[i].user_id = call.user_id
                            /\ call.start_date <= orders[i].date
                            /\ orders[i].date <= call.end_date}

\* C11: get_orders_by_date_range(start, end, user) returns exactly the orders of
\* that user dated from start to end, both ends included, in store order; the
\* orders of other users and the orders dated outside the range are left out.
C11_InclusiveRange ==
    RangeCall => ret = Picked(orders, InRange)

\* a range that starts on the date of one returned order and ends on the date
\* of another, while the store holds an order that is left out
C11_Witness ==
    /\ RangeCall
    /\ call.start_date < call.end_date
    /\ \E i, j \in 1..Len(ret) : /\ ret[i].date = call.start_date
                                 /\ ret[j].date = call.end_date
    /\ Len(ret) < Len(orders)

ItemCall == call.op = "get_orders_by_item_name"

\* the item of an order carries the text asked for, whatever the case of either
Carries(item) == In(lower(call.item_name), lower(item.name))

\* the positions of the store an item search is to return
Matching ==
    {i \in 1..Len(orders) :
        /\ orders[i].user_id = call.user_id
        /\ \E k \in 1..Len(orders[i].items) : Carries(orders[i].items[k])}

\* C12: get_orders_by_item_name matches by case-insensitive substring: an order
\* of the user is returned exactly when the name of at least one of its items
\* contains the query text once both are lower-cased, and a matching order is
\* returned once even when several of its items match.
C12_ItemSubstring ==
    ItemCall => ret = Picked(orders, Matching)

\* a returned order that has two matching items, one of them matching only
\* because the case is folded, beside an order of the user that is not returned
C12_Witness ==
    /\ ItemCall
    /\ \E i \in 1..Len(ret) : \E k, m \in 1..Len(ret[i].items) :
          /\ k # m
          /\ Carries(ret[i].items[k]) /\ Carries(ret[i].items[m])
          /\ ~In(call.item_name, ret[i].items[k].name)
    /\ \E j \in 1..Len(orders) : orders[j].user_id = call.user_id /\ j \notin Matching

\* C15: add_order appends exactly one order at the end of the in-memory list,
\* the earlier orders unchanged and in order, and then rewrites the backing
\* file with the full list; when the rewrite fails the call raises nothing and
\* the in-memory append stays in place.
C15_AppendThenRewrite ==
    [][(call.op = "idle" /\ call'.op = "add_order")
          => /\ Len(orders') = Len(orders) + 1
             /\ SubSeq(orders', 1, Len(orders)) = orders
             /\ orders'[Len(orders')] = call'.order
             /\ call'.outcome = "written" => file' = orders'
             /\ ret' = [returned |-> None]]_vars

\* an append behind an earlier order whose rewrite of the file failed
C15_Witness ==
    /\ call.op = "add_order"
    /\ call.outcome # "written"
    /\ Len(orders) >= 2
    /\ file # orders
    /\ ret = [returned |-> None]

ReadOps ==
    {"get_orders_by_date", "get_orders_by_day_of_week", "get_orders_by_date_range",
     "get_orders_by_item_name", "get_latest_order"}

\* the value of the read c on the list os
ReadValue(os, c) ==
    CASE c.op = "get_orders_by_date" -> get_orders_by_date(os, c.date, c.user_id)
      [] c.op = "get_orders_by_day_of_week" ->
             get_orders_by_day_of_week(os, c.day_of_week, c.user_id)
      [] c.op = "get_orders_by_date_range" ->
             get_orders_by_date_range(os, c.start_date, c.end_date, c.user_id)
      [] c.op = "get_orders_by_item_name" ->
             get_orders_by_item_name(os, c.item_name, c.user_id)
      [] c.op = "get_latest_order" -> get_latest_order(os, c.user_id)

\* C16: every read of the order store (by date, by day of week, by date range,
\* by item name, latest) leaves the in-memory order list unchanged in content
\* and in order, and the same read repeated on the list it leaves returns the
\* same result.
C16_ReadsLeaveStore ==
    [][(call.op = "idle" /\ call'.op \in ReadOps)
          => /\ orders' = orders
             /\ file' = file
             /\ ret' = ReadValue(orders', call')]_vars

\* the latest order read from a list that is not in the order of its sort
C16_Witness ==
    /\ call.op = "get_latest_order"
    /\ ret # <<>>
    /\ \E i, j \in 1..Len(orders) :
          /\ i < j
          /\ orders[i].user_id = call.user_id /\ orders[j].user_id = call.user_id
          /\ orders[i].date < orders[j].date

LatestCall == call.op = "get_latest_order"

\* the positions of the orders of the user of the call
OfUser == {i \in 1..Len(orders) : orders[i].user_id = call.user_id}

\* the positions of the user's orders of the greatest date
MostRecent == {i \in OfUser : \A j \in OfUser : orders[j].date <= orders[i].date}

\* C21: get_latest_order(user) returns none exactly when the user has no
\* orders, and otherwise an order of that user whose date is the maximum among
\* the user's orders; when several orders share that date, the one that comes
\* first in store order is returned.
C21_LatestFirstOnTies ==
    LatestCall =>
        IF OfUser = {} THEN ret = <<>>
        ELSE ret = <<orders[CHOOSE i \in MostRecent : \A j \in MostRecent : i <= j]>>

\* two different orders of the user share the greatest date, behind an older
\* order of the user
C21_Witness ==
    /\ LatestCall
    /\ ret # <<>>
    /\ \E i, j \in MostRecent : i < j /\ orders[i] # orders[j]
    /\ \E k \in OfUser : k \notin MostRecent /\ \A i \in MostRecent : k < i

\* the user has no order in a store that holds orders
C21_WitnessNone ==
    /\ LatestCall
    /\ OfUser = {} /\ orders # <<>>
    /\ ret = <<>>

----------------------------------------------------------------------------
(* Claims on the deterministic strategy *)

DeterministicCall == call.op = "search_orders"

\* the query of the call mentions the text, whatever the case of the query
Mentions(text) == In(Word(text), lower(Word(call.query)))

NoOrdersOfUser == \A i \in 1..Len(orders) : orders[i].user_id # call.user_id

\* the query is answered by the latest-order search
AsksLatest ==
    /\ ~Mentions("friday") /\ ~Mentions("monday") /\ ~Mentions("week")
    /\ Mentions("latest") \/ Mentions("most recent")

\* none of the tests of search_orders holds of the query
FallsToGeneral ==
    \A text \in {"friday", "monday", "week", "latest", "most recent"} \cup FoodTriggers :
        ~Mentions(text)

\* C13: when the user has no orders in the store, the deterministic search for
\* a "latest order" query, and for any query that falls to the general fallback,
\* returns found = false, the message "No orders found" and an empty order list.
C13_NoOrdersFound ==
    (DeterministicCall /\ NoOrdersOfUser /\ (AsksLatest \/ FallsToGeneral))
        => ret = [found |-> FALSE, message |-> <<"No orders found">>, orders |-> <<>>]

\* "latest order" asked for a user without orders while the store holds the
\* orders of someone else
C13_Witness ==
    /\ DeterministicCall /\ NoOrdersOfUser /\ orders # <<>>
    /\ call.query = "latest order"
    /\ ret.found = FALSE

\* the same for a query that falls to the general fallback
C13_WitnessGeneral ==
    /\ DeterministicCall /\ NoOrdersOfUser /\ orders # <<>>
    /\ FallsToGeneral
    /\ ret.found = FALSE

\* the seven weekdays, by the word that names each in a query
Weekdays ==
    [monday |-> "Monday", tuesday |-> "Tuesday", wednesday |-> "Wednesday",
     thursday |-> "Thursday", friday |-> "Friday", saturday |-> "Saturday",
     sunday |-> "Sunday"]

NamedWeekdays == {word \in DOMAIN Weekdays : Mentions(word)}

KnownFoods == {food_keywords[i] : i \in 1..Len(food_keywords)}

\* C18: the deterministic strategy classifies a query by the fixed priority: a
\* named weekday, any of Monday to Sunday, gives the day-of-week lookup for that
\* weekday; otherwise a "last week" mention gives the last-week range lookup;
\* otherwise "latest" or "most recent" gives the single most recent order;
\* otherwise a known food keyword gives the item lookup; anything else falls
\* back to the most recent order.
C18_ClaimedPriority ==
    DeterministicCall =>
        IF NamedWeekdays # {}
        THEN \E word \in NamedWeekdays :
                ret = _search_by_day(orders, Weekdays[word], call.user_id)
        ELSE IF Mentions("last week")
        THEN ret = _search_last_week(orders, call.user_id, call.today)
        ELSE IF Mentions("latest") \/ Mentions("most recent")
        THEN ret = _search_latest(orders, call.user_id)
        ELSE IF \E food \in KnownFoods : Mentions(food)
        THEN ret = _search_by_food_item(orders, lower(Word(call.query)), call.user_id)
        ELSE ret = _search_latest(orders, call.user_id)

\* a result of the deterministic strategy: of search_orders or of one branch
StructuredCall == call.op \in {"search_orders", "_search_by_day"}

\* C24: every result of the deterministic strategy is well-formed: it carries a
\* found flag, a message and an order list; found is true exactly when the
\* order list is non-empty, and a formatted display string is present exactly
\* when found is true.
C24_WellFormedResult ==
    StructuredCall =>
        /\ {"found", "message", "orders"} \subseteq DOMAIN ret
        /\ DOMAIN ret \subseteq {"found", "message", "orders", "formatted_response"}
        /\ ret.found \in BOOLEAN
        /\ ret.message # <<>>
        /\ ret.found = (ret.orders # <<>>)
        /\ ("formatted_response" \in DOMAIN ret) = ret.found
        /\ ret.found => ret.formatted_response # <<>>

\* a search that found several orders and carries their display string
C24_Witness ==
    /\ DeterministicCall
    /\ ret.found
    /\ Len(ret.orders) >= 2
    /\ "formatted_response" \in DOMAIN ret

\* a last-week search that found nothing although the user has orders: the
\* result has no display string
C24_WitnessNotFound ==
    /\ DeterministicCall
    /\ call.today # Unread
    /\ ~NoOrdersOfUser
    /\ ~ret.found
    /\ "formatted_response" \notin DOMAIN ret

----------------------------------------------------------------------------
(* Claims on the LLM-assisted strategy *)

AssistedCall == call.op = "search_order_history"

\* the query LLM is not initialised, or its response is no parsable JSON
GenerationFails ==
    \/ ~query_llm
    \/ call.response = NotJson

\* C17: in the LLM-assisted strategy, when the query LLM is not initialised or
\* its response is not parsable JSON, search_orders fails with an error that
\* reaches its caller: no result string is returned, no lookup is made in the
\* order store, and no deterministic fallback is applied.
C17_HardFailure ==
    (AssistedCall /\ GenerationFails)
        => /\ DOMAIN ret = {"raised"}
           /\ trace.lookups = 0

\* a response that is no JSON, on a store that holds an order the fallback of
\* the deterministic strategy would have found
C17_Witness ==
    /\ AssistedCall
    /\ query_llm /\ call.response = NotJson
    /\ get_latest_order(orders, call.user_id) # <<>>
    /\ "raised" \in DOMAIN ret

\* the same with no query LLM
C17_WitnessNoLLM ==
    /\ AssistedCall
    /\ ~query_llm
    /\ get_latest_order(orders, call.user_id) # <<>>
    /\ "raised" \in DOMAIN ret

\* the parameters of the call ask for one order of a day of the week
DayQuery ==
    /\ AssistedCall
    /\ call.response.kind = "object"
    /\ "day_of_week" \in DOMAIN call.response.value
    /\ Get(call.response.value, "limit", 1) = 1

\* the orders of the user of the parameters on the day of the parameters
DayMatches ==
    LET query_params == call.response.value
    IN  {i \in 1..Len(orders) :
            /\ orders[i].user_id = Get(query_params, "user_id", DefaultUser)
            /\ orders[i].day_of_week = query_params["day_of_week"]}

\* C19: in the LLM-assisted strategy, a day-of-week query with limit 1 (the
\* parameters the prompt gives for "last Friday") returns the single most recent
\* order of the user whose day_of_week matches, for every store content and
\* store order, whenever at least one matching order exists.
C19_MostRecentOfDay ==
    (DayQuery /\ DayMatches # {})
        => \E i \in DayMatches :
              /\ \A j \in DayMatches : orders[j].date <= orders[i].date
              /\ ret = [returned |-> _format_order_response(orders[i])]

----------------------------------------------------------------------------
(* Claims on requests that run at the same time *)

\* the turns at i and i + 1 of the session are the message and the reply of one
\* request that was saved for the session
PairOfOneRequest(session_id, i) ==
    \E k \in 1..Len(Get(savelog, session_id, <<>>)) :
        /\ _sessions[session_id][i] =
               HumanMessage(savelog[session_id][k].inputs.message)
        /\ _sessions[session_id][i + 1] =
               AIMessage(savelog[session_id][k].outputs.reply)

\* C20: with several chat_once requests for the same session interleaved at
\* their model invocations, in every reachable state each user turn of a session
\* is immediately followed by the assistant turn produced in response to that
\* same user message: the two turns of a request are appended together, no
\* pair is split by the turns of another request, and no session ever holds an
\* odd number of turns.
C20_PairsTogether ==
    \A session_id \in DOMAIN _sessions :
        /\ Len(_sessions[session_id]) % 2 = 0
        /\ \A i \in 1..Len(_sessions[session_id]) :
              i % 2 = 1 => PairOfOneRequest(session_id, i)

\* a request waits at its second invoke with the messages it read from the
\* empty session, while the session holds the pair of a request that began and
\* finished since
C20_Witness ==
    \E slot \in InFlight :
        /\ inflight[slot].at = "second invoke"
        /\ Len(inflight[slot].messages) = 2
        /\ inflight[slot].session_id \in DOMAIN _sessions
        /\ Len(_sessions[inflight[slot].session_id]) = 2

\* one session holds the pairs of two requests with different messages, and
\* no request is waiting
C20_WitnessBoth ==
    \E session_id \in DOMAIN _sessions :
        /\ Len(_sessions[session_id]) = 4
        /\ InFlight = {}
        /\ _sessions[session_id][1].content # _sessions[session_id][3].content

----------------------------------------------------------------------------
(* Claims on the last-week window *)

\* a call of either strategy that read the clock
WeekCall ==
    /\ call.op \in {"search_orders", "execute_search"}
    /\ call.today # Unread

\* the Monday of the week of a day: the Monday among the day and the six before
MondayOf(day) == CHOOSE d \in (day - 6)..day : d % 7 = 0

\* the user a week call searches for
WeekUser ==
    IF call.op = "search_orders" THEN call.user_id
    ELSE Get(call.query_params, "user_id", DefaultUser)

\* the positions of the user's orders dated in the calendar week before today's
InLastWeek ==
    {i \in 1..Len(orders) :
        /\ orders[i].user_id = WeekUser
        /\ MondayOf(call.today) - 7 <= orders[i].date
        /\ orders[i].date <= MondayOf(call.today) - 1}

\* the orders a week call returned
WeekOrders == IF call.op = "search_orders" THEN ret.orders ELSE ret

\* C22: for every current date, the "last week" window used by both strategies
\* starts on the Monday of the previous calendar week and ends on the following
\* Sunday: it spans exactly 7 days, its start is a Monday, its end is the day
\* before the Monday of the current week, and it never contains the current
\* date.  The orders a last-week search returns are orders of that window.
C22_PreviousCalendarWeek ==
    WeekCall =>
        LET last_week_start == LastWeekStart(call.today)
            last_week_end == last_week_start + 6
        IN  /\ last_week_start % 7 = 0
            /\ last_week_start = MondayOf(call.today) - 7
            /\ last_week_end = MondayOf(call.today) - 1
            /\ Cardinality(last_week_start..last_week_end) = 7
            /\ call.today \notin last_week_start..last_week_end
            /\ \A k \in 1..Len(WeekOrders) :
                  \E i \in InLastWeek : WeekOrders[k] = orders[i]
            /\ (WeekOrders = <<>>) = (InLastWeek = {})
            /\ call.op = "search_orders" => ret.orders = Picked(orders, InLastWeek)

\* the deterministic search asked in mid-week: it returns an order dated on the
\* Monday that starts the window and leaves out an order of the user dated in
\* the current week and one dated before the window
C22_Witness ==
    /\ WeekCall /\ call.op = "search_orders"
    /\ call.today % 7 \notin {0, 6}
    /\ \E k \in 1..Len(ret.orders) : ret.orders[k].date = MondayOf(call.today) - 7
    /\ \E i \in 1..Len(orders) :
          orders[i].user_id = WeekUser /\ orders[i].date < MondayOf(call.today) - 7

\* the same window in the LLM-assisted strategy, asked on a Sunday
C22_WitnessAssisted ==
    /\ WeekCall /\ call.op = "execute_search"
    /\ call.today % 7 = 6
    /\ ret # <<>>
    /\ \E i \in 1..Len(orders) : orders[i].user_id = WeekUser /\ i \notin InLastWeek

----------------------------------------------------------------------------
(* Claims on the two store instances that share the backing file *)

\* an add_order step, through either instance, whose rewrite of the file worked
SuccessfulAppend ==
    /\ call.op = "idle"
    /\ call'.op = "add_order"
    /\ call'.outcome = "written"

\* C23: the persisted order log is append-only across the add_order calls made
\* through the two store instances that share the backing file: what has been
\* written to the file is still in the file, in place, after every later
\* successful append, and the file then holds the full order list, every order
\* appended so far through either instance.
C23_AppendOnlyFile ==
    [][SuccessfulAppend
          => /\ Len(file) <= Len(file')
             /\ SubSeq(file', 1, Len(file)) = file
             /\ Len(file') = Len(orders') + Len(intelligent_search_orders')]_vars

----------------------------------------------------------------------------
(* Claims on what reaches the Conversation Store *)

\* a chat_once step that returns the echo fallback
EchoStep ==
    /\ call.op = "idle"
    /\ call'.op = "chat_once"
    /\ ret'.reply = Echo(call'.message)
    /\ ret'.message_count = 0

\* the session is made of exchanges: a user turn, then the reply to it
MadeOfExchanges(messages) ==
    /\ Len(messages) > 0
    /\ Len(messages) % 2 = 0
    /\ \A i \in 1..Len(messages) :
          messages[i].type = (IF i % 2 = 1 THEN "human" ELSE "ai")

\* C25: whenever chat_once returns the echo fallback (no model configured, or a
\* failure in the model or tool steps), the Conversation Store is left exactly
\* as it was before the call: no turn is appended to any session and no session
\* is created; so every session present in the store has been created by a
\* successful exchange and holds a positive, even number of turns.
C25_EchoLeavesStore ==
    /\ [][EchoStep => _sessions' = _sessions]_vars
    /\ [](\A s \in DOMAIN _sessions : MadeOfExchanges(_sessions[s]))

\* the model failed on its second invocation, after the tools ran, in a request
\* for a session the store does not hold while it holds another: echo returned
C25_Witness ==
    /\ call.op = "chat_once"
    /\ ret.reply = Echo(call.message)
    /\ call.r2 = Raises
    /\ trace.executed # <<>>
    /\ _sessions # <<>>
    /\ ret.session_id \notin DOMAIN _sessions

\* no model configured: echo returned under a minted id, the store empty
C25_WitnessNoModel ==
    /\ call.op = "chat_once"
    /\ ~model_with_tools
    /\ ret = EchoReturn(call.message, call.uuid)
    /\ _sessions = <<>>

\* the model failed on its first invocation in a session that holds turns
C25_WitnessFirstInvoke ==
    /\ call.op = "chat_once"
    /\ call.r1 = Raises
    /\ ret.reply = Echo(call.message)
    /\ ret.session_id \in DOMAIN _sessions

\* the synthetic turns a request can build from its tool results
ToolTurns ==
    { AIMessage("Tool results: " \o
          Join("; ", ToolLoop(t, 1, [tool_results |-> <<>>, executed |-> <<>>]).tool_results)) :
        t \in ToolCallSeqs \ {<<>>} }

\* a chat_once step that returns a reply of the model
ReplyStep ==
    /\ call.op = "idle"
    /\ call'.op = "chat_once"
    /\ ret'.reply # Echo(call'.message)

\* the turns of the session in the store, none for a session it does not hold
TurnsOf(sessions, session_id) ==
    IF session_id \in DOMAIN sessions THEN sessions[session_id] ELSE <<>>

\* C26: the synthetic "Tool results" turn and the model's first tool-requesting
\* response are used only inside the request that produced them and are never
\* written to the Conversation Store: a request that gets a reply stores its
\* user message and the final reply returned for it and nothing else, so every
\* stored turn is a user message passed to chat_once or the final reply to it,
\* and the context a request starts from holds no tool-result turn.
C26_ToolTurnsStayInside ==
    /\ [][ReplyStep =>
            /\ ret'.reply = IF call'.r2 # Unasked THEN call'.r2.content
                            ELSE call'.r1.content
            /\ DOMAIN _sessions' = DOMAIN _sessions \cup {ret'.session_id}
            /\ \A s \in DOMAIN _sessions : s # ret'.session_id => _sessions'[s] = _sessions[s]
            /\ _sessions'[ret'.session_id] =
                  TurnsOf(_sessions, ret'.session_id)
                      \o <<HumanMessage(call'.message), AIMessage(ret'.reply)>>]_vars
    /\ [](\A s \in DOMAIN _sessions : \A i \in 1..Len(_sessions[s]) :
            /\ _sessions[s][i] \notin ToolTurns
            /\ \/ \E m \in Messages : _sessions[s][i] = HumanMessage(m)
               \/ \E c \in Contents : _sessions[s][i] = AIMessage(c))
    /\ []((call.op = "chat_once" /\ trace.invoked # <<>>) =>
            \A k \in 1..Len(trace.invoked[1]) : trace.invoked[1][k] \notin ToolTurns)

\* a request in a session that already holds an exchange: its first response
\* asked for tools, its second context ended with the tool-result turn, and the
\* reply stored is the second response's, which differs from the first's
C26_Witness ==
    /\ call.op = "chat_once"
    /\ call.r1.tool_calls # <<>>
    /\ trace.tool_results # <<>>
    /\ Len(trace.invoked) = 2
    /\ trace.invoked[2][Len(trace.invoked[2])] \in ToolTurns
    /\ call.r2.content # call.r1.content
    /\ ret.reply = call.r2.content
    /\ Len(trace.invoked[1]) >= 4
    /\ Len(_sessions[ret.session_id]) = 4
    /\ _sessions[ret.session_id][4] = AIMessage(call.r2.content)

====
